---- MODULE Spec2Model ----
(***************************************************************************)
(* Correlation-id middleware for Express (lib/correlationIdMiddleware.js)  *)
(* and the correlator it is built on (lib/correlationIdHelper.js), with    *)
(* the Graylog emitter (lib/graylogHelper.js).                             *)
(*                                                                         *)
(* One event loop runs every continuation to completion, so each action    *)
(* is one synchronous run: the middleware call, a promise reaction, a      *)
(* network event of the emitter, or a continuation of downstream code.     *)
(* AsyncLocalStorage is modelled by the store reference each continuation  *)
(* captured when it was scheduled; scope records live in a heap, so two    *)
(* references to one record really share it.                               *)
(***************************************************************************)
EXTENDS Integers, Sequences, FiniteSets, TLC

\* ------------------------------------------------------------------ bounds
NumReqs == 2
MaxObjects == 3

Reqs == 1..NumReqs

\* ------------------------------------------------------- JavaScript values
Undefined == [type |-> "undefined"]
Str(cs) == [type |-> "string", chars |-> cs]
WorkFn == [type |-> "function"]
Fn(name) == [type |-> "function", name |-> name]
NotSet == [type |-> "none"]
Null == [type |-> "null"]
Arr(items) == [type |-> "array", items |-> items]
Bool(b) == [type |-> "boolean", val |-> b]

\* JavaScript truthiness of the values the code tests with `!x` and `x &&`.
Truthy(v) ==
    CASE v.type = "undefined" -> FALSE
      [] v.type = "null" -> FALSE
      [] v.type = "string" -> v.chars # <<>>
      [] OTHER -> TRUE

isFunction(object) == object.type = "function"

\* String(v), the coercion RegExp.prototype.test applies to its argument: an
\* array gives its elements' strings joined by ",", with nothing for an
\* element that is null or undefined.
RECURSIVE StringOf(_)
RECURSIVE JoinItems(_, _)
JoinItems(items, i) ==
    IF i > Len(items) THEN <<>>
    ELSE (IF i > 1 THEN <<",">> ELSE <<>>)
         \o (IF items[i].type \in {"undefined", "null"} THEN <<>>
             ELSE StringOf(items[i]))
         \o JoinItems(items, i + 1)

StringOf(v) ==
    CASE v.type = "string" -> v.chars
      [] v.type = "array" -> JoinItems(v.items, 1)
      [] v.type = "null" -> <<"n", "u", "l", "l">>
      [] v.type = "function" -> <<"(", ")", "=", ">", "{", "}">>
      [] OTHER -> <<"u", "n", "d", "e", "f", "i", "n", "e", "d">>

HexChars ==
    {"0", "1", "2", "3", "4", "5", "6", "7", "8", "9",
     "a", "b", "c", "d", "e", "f", "A", "B", "C", "D", "E", "F"}

\* Group lengths of /^[0-9a-fA-F]{8}\b-[0-9a-fA-F]{4}\b-...-[0-9a-fA-F]{12}$/i.
\* Each \b sits between a hex digit and "-", where it always holds.
UuidGroups == <<8, 4, 4, 4, 12>>

RECURSIVE MatchGroups(_, _, _)
MatchGroups(s, pos, g) ==
    LET n == UuidGroups[g]
        hexOk == /\ pos + n - 1 <= Len(s)
                 /\ \A i \in pos..(pos + n - 1) : s[i] \in HexChars
    IN  IF ~hexOk THEN FALSE
        ELSE IF g = Len(UuidGroups) THEN pos + n - 1 = Len(s)
        ELSE /\ pos + n <= Len(s)
             /\ s[pos + n] = "-"
             /\ MatchGroups(s, pos + n + 1, g + 1)

isUUID(id) == MatchGroups(StringOf(id), 1, 1)

\* ------------------------------------------------------------ identifiers
UuidStem ==
    <<"1", "2", "3", "e", "4", "5", "6", "7", "-", "e", "8", "9", "b", "-",
      "1", "2", "d", "3", "-", "a", "4", "5", "6", "-",
      "4", "2", "6", "6", "1", "4", "1", "7", "4", "0", "0">>

Digits == <<"0", "1", "2", "3", "4", "5", "6", "7", "8", "9">>

\* '123e4567-e89b-12d3-a456-42661417400<n>'
UuidOf(n) == Str(UuidStem \o <<Digits[n + 1]>>)

\* randomUUID(): the n-th call returns a value no earlier call returned.
randomUUID(n) == UuidOf(n)

\* A valid identifier with upper-case digits, as a client may send it.
UpperUuid ==
    Str(<<"1", "2", "3", "E", "4", "5", "6", "7", "-", "E", "8", "9", "B", "-",
          "1", "2", "D", "3", "-", "A", "4", "5", "6", "-",
          "4", "2", "6", "6", "1", "4", "1", "7", "4", "0", "0", "0">>)

InvalidUuid == Str(<<"i", "n", "v", "a", "l", "i", "d", "-", "u", "u", "i", "d">>)
EmptyString == Str(<<>>)
NewId456 == Str(<<"n", "e", "w", "-", "i", "d", "-", "4", "5", "6">>)

Lower(c) ==
    CASE c = "A" -> "a" [] c = "B" -> "b" [] c = "C" -> "c"
      [] c = "D" -> "d" [] c = "E" -> "e" [] c = "F" -> "f"
      [] OTHER -> c

LowerCase(v) ==
    IF v.type = "string"
    THEN Str([i \in 1..Len(v.chars) |-> Lower(v.chars[i])])
    ELSE v

\* Header values a request may carry under one name (Undefined: no header).
HeaderValues == {Undefined, EmptyString, InvalidUuid, UpperUuid}

\* Values downstream code passes to setId (a string, per its JSDoc).
SetVals == {NewId456, UuidOf(0)}

DefaultHeader == "x-correlation-id"
CustomHeader == "id-svc"
HeaderNames == {DefaultHeader, CustomHeader}

\* The headers of an inbound request, over the two names in use.
RequestHeaders == [HeaderNames -> HeaderValues]

\* Arguments of isUUID: the strings one edit away from a valid identifier
\* (a character replaced, removed or inserted at any place), identifiers in
\* upper and lower case, other strings, and values that are not strings.
ValidChars == UuidOf(0).chars
ReplaceAt(cs, i, c) == [cs EXCEPT ![i] = c]
RemoveAt(cs, i) == SubSeq(cs, 1, i - 1) \o SubSeq(cs, i + 1, Len(cs))
InsertAt(cs, i, c) == SubSeq(cs, 1, i - 1) \o <<c>> \o SubSeq(cs, i, Len(cs))
EditChars == {"g", "-", "F"}
Candidates ==
    {Str(ReplaceAt(ValidChars, i, c)) : i \in 1..Len(ValidChars), c \in EditChars}
    \cup {Str(RemoveAt(ValidChars, i)) : i \in 1..Len(ValidChars)}
    \cup {Str(InsertAt(ValidChars, i, c)) :
             i \in 1..(Len(ValidChars) + 1), c \in {"0", "-", "\n"}}
    \cup {UuidOf(0), UpperUuid, InvalidUuid, EmptyString}
    \cup {Undefined, Null, WorkFn, Arr(<<>>), Arr(<<UuidOf(0)>>),
          Arr(<<UuidOf(0), UuidOf(0)>>), Arr(<<InvalidUuid>>)}

\* Arguments of direct calls of withId and bindId: an identifier or a
\* function first, then a function, nothing, or a value that is no function.
FirstFn == Fn("first")
SecondFn == Fn("second")
NotAFunction == Str(<<"w", "o", "r", "k">>)
FirstArgs == {NewId456, FirstFn}
SecondArgs == {Undefined, SecondFn, NotAFunction}

\* The value continuations pass to setId.
CorSetVals == {UuidOf(0)}

\* Argument lists a bound function is called with.
ArgLists == {<<>>, <<NewId456, Undefined>>}

\* Arguments of direct calls of sendLogToGraylog: nothing, an empty string,
\* null, an identifier, and a string that is no UUID.
DirectIds == {Undefined, EmptyString, Null, UuidOf(0), InvalidUuid}

\* options.header as given to the factory ("" stands for no option).
HeaderOptions == {"", CustomHeader}

LoggingTag == "Logging error:"
UnexpectedTag == "Unexpected error with Graylog logging:"
TransportTag == "Error sending log to Graylog:"

\* How the call sendLogToGraylog(id) behaves: the real emitter, or one of
\* the doubles the test suite installs in its place.
EmitCalls == {"graylog", "stubReject", "stubThrow"}

\* The continuations of a request's downstream handler, as in the example
\* server: the handler's own later code, and the 'finish' listener that the
\* handler registers on entry.
Conts == {"handler", "finish"}

\* ------------------------------------------------------------------ state
VARIABLES
    headerName,   \* the header name the factory resolved
    pc,           \* per request: "new", "pending", "catch", "finally", "next"
    attached,     \* per request: req.correlationId and req.setCorrelationId
    resHdr,       \* per request: response headers, name -> value
    resolved,     \* per request: the id handed to the scope by withId
    genBy,        \* per request: randomUUID calls made for it
    uuidCount,    \* randomUUID calls made so far
    stores,       \* heap of scope records: stores[k] is record k's id field
    current,      \* the store of the running synchronous code (0: none)
    scope,        \* per request: the record its withId established
    pctx,         \* per request: store captured by the promise reactions
    emit,         \* per request: state of the emission promise
    posted,       \* per request: an HTTP request to Graylog was written
    sent,         \* per request: the emission call's argument and current store
    p1,           \* per request: state of the promise .catch returned
    unhandled,    \* per request: the chain ended in a rejected promise
    mwThrew,      \* per request: the middleware call threw to its caller
    diag,         \* per request: notices written to console.error
    events,       \* per request: "set", "emit", "next" in order of occurrence
    nextCalls,    \* per request: number of next() invocations
    nextCtx,      \* per request: the store current when next() ran
    idAtNext,     \* per request: getId() at entry of the downstream handler
    cctx,         \* per request: stores captured by downstream continuations
    lastSet,      \* per request: argument of the last setId downstream
    echo,         \* per request: getId() right after that setId
    appThrew,     \* per request: a downstream setId threw the usage error
    outsideThrew, \* setId outside any scope threw
    outsideGot,   \* getId() outside any scope, after that setId
    conts,        \* stores captured by the continuations that works scheduled
    wrappers,     \* the functions bindId returned so far
    obs           \* what the last direct call of the correlator did

reqVars == <<pc, attached, resHdr, resolved, genBy>>
heapVars == <<stores, current, scope, pctx>>
emitVars == <<emit, posted, sent, p1, unhandled, mwThrew, diag>>
nextVars == <<events, nextCalls, nextCtx, idAtNext>>
appVars == <<cctx, lastSet, echo, appThrew>>
outVars == <<outsideThrew, outsideGot>>
corVars == <<conts, wrappers, obs>>
vars == <<headerName, uuidCount, reqVars, heapVars, emitVars, nextVars, appVars, outVars,
          corVars>>


\* asyncLocalStorage.getStore() when no scope is current.
NoStore == 0

\* ------------------------------------------------------------- correlator
\* asyncLocalStorage.run({ id }, ...): a new record object on every call; the
\* work runs with that record as the current store.
Run_Shared(st, id) ==
    IF st = <<>> THEN [stores |-> <<id>>, ref |-> 1]
    ELSE [stores |-> [st EXCEPT ![1] = id], ref |-> 1]

Run(st, id) == [stores |-> Append(st, id), ref |-> Len(st) + 1]

\* The store a continuation runs with is the one that was current when it
\* was scheduled (promise reaction, timer, listener).
CapturedStore_None(cur) == NoStore

CapturedStore(cur) == cur

\* run() restores the caller's store when the work returns.
ExitRun_Stays(prev, ref) == ref

ExitRun(prev, ref) == prev

\* getId: `store && store.id`.
getId_Unguarded(st, cur) == IF cur = NoStore THEN [type |-> "TypeError"] ELSE st[cur]

getId(st, cur) == IF cur = NoStore THEN Undefined ELSE st[cur]

\* setId: throws the usage error without a store, else `store.id = id`.
setId_Fallback(st, cur, id) ==
    IF cur = NoStore
    THEN [threw |-> st = <<>>,
          stores |-> IF st = <<>> THEN st ELSE [st EXCEPT ![Len(st)] = id]]
    ELSE [threw |-> FALSE, stores |-> [st EXCEPT ![cur] = id]]

setId_Ignored(st, cur, id) == [threw |-> cur = NoStore, stores |-> st]

setId_Validated(st, cur, id) ==
    IF cur = NoStore
    THEN [threw |-> TRUE, stores |-> st]
    ELSE IF isUUID(id)
         THEN [threw |-> FALSE, stores |-> [st EXCEPT ![cur] = id]]
         ELSE [threw |-> TRUE, stores |-> st]

setId_AllRecords(st, cur, id) ==
    [threw |-> cur = NoStore,
     stores |-> IF cur = NoStore THEN st ELSE [k \in 1..Len(st) |-> id]]

setId(st, cur, id) ==
    IF cur = NoStore
    THEN [threw |-> TRUE, stores |-> st]
    ELSE [threw |-> FALSE, stores |-> [st EXCEPT ![cur] = id]]

\* configureArgs(func)(id, work), with uuid the value randomUUID() would give.
configureArgs_OneUuid(id, work, uuid) ==
    IF ~Truthy(work) /\ isFunction(id)
    THEN [id |-> randomUUID(1), work |-> id, gen |-> TRUE, err |-> FALSE]
    ELSE [id |-> id, work |-> work, gen |-> FALSE, err |-> ~Truthy(work)]

configureArgs_AnyCallable(id, work, uuid) ==
    IF isFunction(id)
    THEN [id |-> uuid, work |-> id, gen |-> TRUE, err |-> FALSE]
    ELSE [id |-> id, work |-> work, gen |-> FALSE, err |-> ~Truthy(work)]

configureArgs(id, work, uuid) ==
    IF ~Truthy(work) /\ isFunction(id)
    THEN [id |-> uuid, work |-> id, gen |-> TRUE, err |-> FALSE]
    ELSE [id |-> id, work |-> work, gen |-> FALSE, err |-> ~Truthy(work)]

withId_ReusesRecord(st, id, work) ==
    IF st = <<>>
    THEN [stores |-> <<id>>, ref |-> 1, callee |-> work, args |-> <<>>]
    ELSE [stores |-> [st EXCEPT ![Len(st)] = id], ref |-> Len(st),
          callee |-> work, args |-> <<>>]

\* withId(id, work): `asyncLocalStorage.run({ id }, () => work())`, up to the
\* call of work, which gets no arguments.
withId(st, id, work) ==
    LET ran == Run(st, id)
    IN  [stores |-> ran.stores, ref |-> ran.ref, callee |-> work, args |-> <<>>]

\* bindId(id, work): the function it returns, which holds id and work.
bindId(id, work) == [type |-> "function", id |-> id, work |-> work]

BoundCall_OneRecord(st, wrapper, args) ==
    IF st = <<>>
    THEN [stores |-> <<wrapper.id>>, ref |-> 1, callee |-> wrapper.work, args |-> args]
    ELSE [stores |-> st, ref |-> 1, callee |-> wrapper.work, args |-> args]

BoundCall_NoArgs(st, wrapper, args) ==
    LET ran == Run(st, wrapper.id)
    IN  [stores |-> ran.stores, ref |-> ran.ref, callee |-> wrapper.work, args |-> <<>>]

\* The function bindId returned, called with args:
\* `(...args) => asyncLocalStorage.run({ id }, () => work(...args))`.
BoundCall(st, wrapper, args) ==
    LET ran == Run(st, wrapper.id)
    IN  [stores |-> ran.stores, ref |-> ran.ref, callee |-> wrapper.work, args |-> args]

\* What a work function returns: a value that tells which function ran and
\* what it was given.
WorkResult(callee, args) == [type |-> "result", of |-> callee, args |-> args]

\* The call `work(...)` itself: calling a value that is no function throws a
\* TypeError.
CallWork(callee, args) ==
    IF isFunction(callee)
    THEN [threw |-> FALSE, result |-> WorkResult(callee, args)]
    ELSE [threw |-> TRUE, result |-> NotSet]

\* ------------------------------------------------------------- middleware
\* The correlator's functions as values: two references to one function are
\* equal, references to different functions are not.
CorrelatorGetId == "correlator.getId"
CorrelatorSetId == "correlator.setId"

\* correlationMw.getId = correlator.getId; correlationMw.setId = correlator.setId
StaticGetId == CorrelatorGetId
StaticSetId == CorrelatorSetId

\* The two properties of a request object before the middleware saw it.
NoCapabilities == [correlationId |-> "undefined", setCorrelationId |-> "undefined"]

\* req.correlationId = correlator.getId; req.setCorrelationId = correlator.setId
Attach_GetterOnly(req) == [req EXCEPT !.correlationId = CorrelatorGetId]

Attach(req) ==
    [req EXCEPT !.correlationId = CorrelatorGetId,
                !.setCorrelationId = CorrelatorSetId]

\* (options && options.header) || 'x-correlation-id'
HeaderNameOf(option) == IF option # "" THEN option ELSE DefaultHeader

\* `id && correlator.isUUID(id)`
AcceptIncoming_NoValidation(id) == Truthy(id)

AcceptIncoming(id) == Truthy(id) /\ isUUID(id)

\* res.set(name, value)
ResSet_Normalised(headers, name, value) ==
    [headers EXCEPT ![name] = LowerCase(value)]

ResSet(headers, name, value) == [headers EXCEPT ![name] = value]

\* The identifier the generated branch writes: `const newId = correlator.getId()`.
NewId_Regenerated(st, cur, n) == randomUUID(n + 1)

NewId(st, cur, n) == getId(st, cur)

\* The argument of the emission call: `sendLogToGraylog(id)` in the incoming
\* branch, `sendLogToGraylog(newId)` in the generated one.
LogId_HeaderValue(incoming, id, newId) == id

LogId(incoming, id, newId) == IF incoming THEN id ELSE newId

\* No emission call was made.
NoCall == [id |-> NotSet, ctx |-> NoStore]

sendLogToGraylog_NoGuard(correlationId) ==
    [threw |-> FALSE, promise |-> "pending", posted |-> TRUE]

\* sendLogToGraylog(correlationId) up to its return: nothing is sent without
\* an identifier, otherwise the request is written and the promise is pending.
sendLogToGraylog(correlationId) ==
    IF ~Truthy(correlationId)
    THEN [threw |-> FALSE, promise |-> "fulfilled", posted |-> FALSE]
    ELSE [threw |-> FALSE, promise |-> "pending", posted |-> TRUE]

\* The call as the middleware sees it: the emitter, or a test double that
\* returns a rejected promise or throws.
EmitCall(how, id) ==
    CASE how = "graylog" -> sendLogToGraylog(id)
      [] how = "stubReject" -> [threw |-> FALSE, promise |-> "rejected", posted |-> FALSE]
      [] how = "stubThrow" -> [threw |-> TRUE, promise |-> "none", posted |-> FALSE]

\* try { sendLogToGraylog(id).catch(..).finally(..) } catch (err) { console.error(..); next(); }
TryEmit_NoNext(call) ==
    IF call.threw
    THEN [notices |-> <<UnexpectedTag>>, nextNow |-> FALSE, escaped |-> FALSE]
    ELSE [notices |-> <<>>, nextNow |-> FALSE, escaped |-> FALSE]

TryEmit(call) ==
    IF call.threw
    THEN [notices |-> <<UnexpectedTag>>, nextNow |-> TRUE, escaped |-> FALSE]
    ELSE [notices |-> <<>>, nextNow |-> FALSE, escaped |-> FALSE]

\* What the work passed to withId does synchronously, in order.
ScopeSteps_NextFirst(threw) == <<"set", "next", "emit">>

ScopeSteps(threw) == <<"set", "emit">> \o (IF threw THEN <<"next">> ELSE <<>>)

\* .catch(err => console.error('Logging error:', err)) on a settled promise.
CatchReaction_Missing(state) == [p1 |-> state, notices |-> <<>>]

CatchReaction(state) ==
    IF state = "rejected"
    THEN [p1 |-> "fulfilled", notices |-> <<LoggingTag>>]
    ELSE [p1 |-> "fulfilled", notices |-> <<>>]

\* ----------------------------------------------------------------- actions
NoHeaders == [n \in HeaderNames |-> Undefined]

\* No direct call of the correlator was made yet.
NoObs ==
    [op |-> "none", from |-> NoStore, a |-> NotSet, b |-> NotSet, given |-> <<>>,
     error |-> "none", gen |-> FALSE, scope |-> NoStore, id |-> NotSet,
     callee |-> NotSet, args |-> <<>>, result |-> NotSet,
     before |-> NotSet, inside |-> NotSet, after |-> NotSet,
     entry |-> NotSet, set |-> NotSet]

Init ==
    /\ headerName \in {HeaderNameOf(o) : o \in HeaderOptions}
    /\ pc = [r \in Reqs |-> "new"]
    /\ attached = [r \in Reqs |-> NoCapabilities]
    /\ resHdr = [r \in Reqs |-> NoHeaders]
    /\ resolved = [r \in Reqs |-> NotSet]
    /\ genBy = [r \in Reqs |-> 0]
    /\ uuidCount = 0
    /\ stores = <<>>
    /\ current = NoStore
    /\ scope = [r \in Reqs |-> NoStore]
    /\ pctx = [r \in Reqs |-> NoStore]
    /\ emit = [r \in Reqs |-> "none"]
    /\ posted = [r \in Reqs |-> FALSE]
    /\ sent = [r \in Reqs |-> NoCall]
    /\ p1 = [r \in Reqs |-> "none"]
    /\ unhandled = [r \in Reqs |-> FALSE]
    /\ mwThrew = [r \in Reqs |-> FALSE]
    /\ diag = [r \in Reqs |-> <<>>]
    /\ events = [r \in Reqs |-> <<>>]
    /\ nextCalls = [r \in Reqs |-> 0]
    /\ nextCtx = [r \in Reqs |-> NoStore]
    /\ idAtNext = [r \in Reqs |-> NotSet]
    /\ cctx = [r \in Reqs |-> [c \in Conts |-> NoStore]]
    /\ lastSet = [r \in Reqs |-> NotSet]
    /\ echo = [r \in Reqs |-> NotSet]
    /\ appThrew = [r \in Reqs |-> FALSE]
    /\ outsideThrew = FALSE
    /\ outsideGot = NotSet
    /\ conts = <<>>
    /\ wrappers = <<>>
    /\ obs = NoObs

\* req.get(name)
ReqGet_DefaultName(headers, name) == headers[DefaultHeader]

ReqGet(headers, name) == headers[name]

\* The middleware function (req, res, next) => { ... } from the value `id` it
\* read from the request up to its return, with the emission call behaving
\* as `how`. Requests are numbered in the order they arrive.
MiddlewareOn(r, id, how) ==
    /\ pc[r] = "new"
    /\ \A q \in Reqs : q < r => pc[q] # "new"
    /\ LET incoming == AcceptIncoming(id)
           cfg == IF incoming
                  THEN configureArgs(id, WorkFn, randomUUID(uuidCount + 1))
                  ELSE configureArgs(WorkFn, Undefined, randomUUID(uuidCount + 1))
           ran == Run(stores, cfg.id)
           inside == ran.ref
           outId == IF incoming THEN id ELSE NewId(ran.stores, inside, uuidCount + 1)
           logId == LogId(incoming, id, outId)
           call == EmitCall(how, logId)
           try == TryEmit(call)
           steps == ScopeSteps(call.threw)
       IN  /\ emit' = [emit EXCEPT ![r] = IF call.threw THEN "threw" ELSE call.promise]
           /\ attached' = [attached EXCEPT ![r] = Attach(attached[r])]
           /\ resolved' = [resolved EXCEPT ![r] = cfg.id]
           /\ genBy' = [genBy EXCEPT ![r] = IF cfg.gen THEN 1 ELSE 0]
           /\ uuidCount' = IF cfg.gen THEN uuidCount + 1 ELSE uuidCount
           /\ stores' = ran.stores
           /\ scope' = [scope EXCEPT ![r] = inside]
           /\ current' = ExitRun(current, inside)
           /\ resHdr' = [resHdr EXCEPT ![r] = ResSet(resHdr[r], headerName, outId)]
           /\ posted' = [posted EXCEPT ![r] = call.posted]
           /\ sent' = [sent EXCEPT ![r] = [id |-> logId, ctx |-> inside]]
           /\ diag' = [diag EXCEPT ![r] = try.notices]
           /\ mwThrew' = [mwThrew EXCEPT ![r] = cfg.err \/ try.escaped]
           /\ events' = [events EXCEPT ![r] = steps]
           /\ pctx' = [pctx EXCEPT ![r] =
                         IF call.threw THEN NoStore ELSE CapturedStore(inside)]
           /\ IF try.nextNow
              THEN /\ pc' = [pc EXCEPT ![r] = "next"]
                   /\ nextCalls' = [nextCalls EXCEPT ![r] = 1]
                   /\ nextCtx' = [nextCtx EXCEPT ![r] = inside]
                   /\ idAtNext' = [idAtNext EXCEPT ![r] = getId(ran.stores, inside)]
                   /\ cctx' = [cctx EXCEPT ![r] = [c \in Conts |-> CapturedStore(inside)]]
              ELSE /\ pc' = [pc EXCEPT ![r] =
                               CASE call.threw -> "failed"
                                 [] call.promise = "pending" -> "pending"
                                 [] OTHER -> "catch"]
                   /\ UNCHANGED <<nextCalls, nextCtx, idAtNext, cctx>>
    /\ UNCHANGED <<headerName, p1, unhandled, lastSet, echo, appThrew, outVars, corVars>>

\* The middleware function called for a request carrying `headers`.
Middleware(r, headers, how) == MiddlewareOn(r, ReqGet(headers, headerName), how)

\* graylogHelper: the response to the POST ended, resolve().
ResponseEnd(r) ==
    /\ pc[r] = "pending"
    /\ emit[r] = "pending"
    /\ emit' = [emit EXCEPT ![r] = "fulfilled"]
    /\ pc' = [pc EXCEPT ![r] = "catch"]
    /\ UNCHANGED <<headerName, uuidCount, attached, resHdr, resolved, genBy,
                   heapVars, posted, sent, p1, unhandled, mwThrew, diag, nextVars,
                   appVars, outVars, corVars>>

RequestError_Rejects(r) ==
    /\ pc[r] = "pending"
    /\ emit[r] = "pending"
    /\ emit' = [emit EXCEPT ![r] = "rejected"]
    /\ diag' = [diag EXCEPT ![r] = Append(diag[r], TransportTag)]
    /\ pc' = [pc EXCEPT ![r] = "catch"]
    /\ UNCHANGED <<headerName, uuidCount, attached, resHdr, resolved, genBy,
                   heapVars, posted, sent, p1, unhandled, mwThrew, nextVars,
                   appVars, outVars, corVars>>

\* graylogHelper: the request emitted 'error': a notice, then resolve().
RequestError(r) ==
    /\ pc[r] = "pending"
    /\ emit[r] = "pending"
    /\ emit' = [emit EXCEPT ![r] = "fulfilled"]
    /\ diag' = [diag EXCEPT ![r] = Append(diag[r], TransportTag)]
    /\ pc' = [pc EXCEPT ![r] = "catch"]
    /\ UNCHANGED <<headerName, uuidCount, attached, resHdr, resolved, genBy,
                   heapVars, posted, sent, p1, unhandled, mwThrew, nextVars,
                   appVars, outVars, corVars>>

RunCatch_CallsNext(r) ==
    /\ pc[r] = "catch"
    /\ LET c == CatchReaction(emit[r])
       IN  /\ p1' = [p1 EXCEPT ![r] = c.p1]
           /\ diag' = [diag EXCEPT ![r] = diag[r] \o c.notices]
           /\ IF c.notices # <<>>
              THEN /\ events' = [events EXCEPT ![r] = Append(events[r], "next")]
                   /\ nextCalls' = [nextCalls EXCEPT ![r] = nextCalls[r] + 1]
              ELSE UNCHANGED <<events, nextCalls>>
    /\ pc' = [pc EXCEPT ![r] = "finally"]
    /\ current' = ExitRun(current, pctx[r])
    /\ UNCHANGED <<headerName, uuidCount, attached, resHdr, resolved, genBy,
                   stores, scope, pctx, emit, posted, sent, unhandled, mwThrew,
                   nextCtx, idAtNext, appVars, outVars, corVars>>

\* The reaction registered by .catch runs once the emission promise settled.
RunCatch(r) ==
    /\ pc[r] = "catch"
    /\ LET c == CatchReaction(emit[r])
       IN  /\ p1' = [p1 EXCEPT ![r] = c.p1]
           /\ diag' = [diag EXCEPT ![r] = diag[r] \o c.notices]
    /\ pc' = [pc EXCEPT ![r] = "finally"]
    /\ current' = ExitRun(current, pctx[r])
    /\ UNCHANGED <<headerName, uuidCount, attached, resHdr, resolved, genBy,
                   stores, scope, pctx, emit, posted, sent, unhandled, mwThrew,
                   nextVars, appVars, outVars, corVars>>

\* The reaction registered by .finally runs next() in the store it captured;
\* the promise it returns takes the state of the one before it.
RunFinally(r) ==
    /\ pc[r] = "finally"
    /\ pc' = [pc EXCEPT ![r] = "next"]
    /\ events' = [events EXCEPT ![r] = Append(events[r], "next")]
    /\ nextCalls' = [nextCalls EXCEPT ![r] = nextCalls[r] + 1]
    /\ nextCtx' = [nextCtx EXCEPT ![r] = pctx[r]]
    /\ idAtNext' = [idAtNext EXCEPT ![r] = getId(stores, pctx[r])]
    /\ cctx' = [cctx EXCEPT ![r] = [c \in Conts |-> CapturedStore(pctx[r])]]
    /\ unhandled' = [unhandled EXCEPT ![r] = p1[r] = "rejected"]
    /\ current' = ExitRun(current, pctx[r])
    /\ UNCHANGED <<headerName, uuidCount, attached, resHdr, resolved, genBy,
                   stores, scope, pctx, emit, posted, sent, p1, mwThrew, diag,
                   lastSet, echo, appThrew, outVars, corVars>>

ContSetId_WritesHeader(r, c, v) ==
    /\ pc[r] = "next"
    /\ LET res == setId(stores, cctx[r][c], v)
       IN  /\ stores' = res.stores
           /\ appThrew' = [appThrew EXCEPT ![r] = appThrew[r] \/ res.threw]
           /\ echo' = [echo EXCEPT ![r] = getId(res.stores, cctx[r][c])]
    /\ lastSet' = [lastSet EXCEPT ![r] = v]
    /\ resHdr' = [resHdr EXCEPT ![r] = ResSet(resHdr[r], headerName, v)]
    /\ current' = ExitRun(current, cctx[r][c])
    /\ UNCHANGED <<headerName, uuidCount, pc, attached, resolved, genBy, scope, pctx,
                   emitVars, nextVars, cctx, outVars, corVars>>

\* Continuation c of request r calls req.setCorrelationId(v), then reads the
\* identifier back with req.correlationId().
ContSetId(r, c, v) ==
    /\ pc[r] = "next"
    /\ LET res == setId(stores, cctx[r][c], v)
       IN  /\ stores' = res.stores
           /\ appThrew' = [appThrew EXCEPT ![r] = appThrew[r] \/ res.threw]
           /\ echo' = [echo EXCEPT ![r] = getId(res.stores, cctx[r][c])]
    /\ lastSet' = [lastSet EXCEPT ![r] = v]
    /\ current' = ExitRun(current, cctx[r][c])
    /\ UNCHANGED <<headerName, uuidCount, reqVars, scope, pctx, emitVars, nextVars,
                   cctx, outVars, corVars>>

\* Code that runs in no scope calls setId(v), catches what it throws, and then
\* calls getId().
OutsideSetId(v) ==
    /\ LET res == setId(stores, current, v)
       IN  /\ stores' = res.stores
           /\ outsideThrew' = res.threw
           /\ outsideGot' = getId(res.stores, current)
    /\ UNCHANGED <<headerName, uuidCount, reqVars, current, scope, pctx, emitVars,
                   nextVars, appVars, corVars>>

\* The stores code can run with: none, or one a continuation captured.
Contexts == {NoStore} \cup {conts[k] : k \in 1..Len(conts)}

\* Code running with store `from` calls correlator.withId(a, b); a work that
\* is called schedules one continuation before it returns.
CorWithId(from, a, b) ==
    /\ Len(stores) + Len(wrappers) < MaxObjects
    /\ LET cfg == configureArgs(a, b, randomUUID(uuidCount + 1))
           w == withId(stores, cfg.id, cfg.work)
           call == CallWork(w.callee, w.args)
           o == [NoObs EXCEPT !.op = "withId", !.from = from, !.a = a, !.b = b,
                              !.before = getId(stores, from), !.gen = cfg.gen]
       IN  IF cfg.err
           THEN /\ obs' = [o EXCEPT !.error = "usage",
                                    !.after = getId(stores, from)]
                /\ UNCHANGED <<stores, conts, uuidCount>>
           ELSE /\ stores' = w.stores
                /\ uuidCount' = IF cfg.gen THEN uuidCount + 1 ELSE uuidCount
                /\ conts' = IF call.threw THEN conts
                            ELSE Append(conts, CapturedStore(w.ref))
                /\ obs' = [o EXCEPT
                              !.error = IF call.threw THEN "TypeError" ELSE "none",
                              !.scope = w.ref,
                              !.id = cfg.id,
                              !.callee = w.callee,
                              !.args = w.args,
                              !.result = call.result,
                              !.inside = getId(w.stores, w.ref),
                              !.after = getId(w.stores, ExitRun(from, w.ref))]
    /\ UNCHANGED <<headerName, reqVars, current, scope, pctx, emitVars, nextVars,
                   appVars, outVars, wrappers>>

\* Code calls correlator.bindId(a, b).
CorBindId(a, b) ==
    /\ Len(stores) + Len(wrappers) < MaxObjects
    /\ LET cfg == configureArgs(a, b, randomUUID(uuidCount + 1))
           o == [NoObs EXCEPT !.op = "bindId", !.a = a, !.b = b, !.gen = cfg.gen]
       IN  IF cfg.err
           THEN /\ obs' = [o EXCEPT !.error = "usage"]
                /\ UNCHANGED <<wrappers, uuidCount>>
           ELSE /\ wrappers' = Append(wrappers, bindId(cfg.id, cfg.work))
                /\ uuidCount' = IF cfg.gen THEN uuidCount + 1 ELSE uuidCount
                /\ obs' = [o EXCEPT !.id = cfg.id, !.result = bindId(cfg.id, cfg.work)]
    /\ UNCHANGED <<headerName, reqVars, heapVars, emitVars, nextVars, appVars,
                   outVars, conts>>

\* Code running with store `from` calls the k-th function bindId returned,
\* with the arguments `given`.
CorInvoke(from, k, given) ==
    /\ k \in 1..Len(wrappers)
    /\ Len(stores) + Len(wrappers) < MaxObjects
    /\ LET w == BoundCall(stores, wrappers[k], given)
           call == CallWork(w.callee, w.args)
       IN  /\ stores' = w.stores
           /\ conts' = IF call.threw THEN conts
                       ELSE Append(conts, CapturedStore(w.ref))
           /\ obs' = [NoObs EXCEPT
                         !.op = "invoke", !.from = from, !.a = wrappers[k],
                         !.given = given,
                         !.before = getId(stores, from),
                         !.error = IF call.threw THEN "TypeError" ELSE "none",
                         !.scope = w.ref,
                         !.id = wrappers[k].id,
                         !.callee = w.callee,
                         !.args = w.args,
                         !.result = call.result,
                         !.inside = getId(w.stores, w.ref),
                         !.after = getId(w.stores, ExitRun(from, w.ref))]
    /\ UNCHANGED <<headerName, uuidCount, reqVars, current, scope, pctx, emitVars,
                   nextVars, appVars, outVars, wrappers>>

\* Code running with store `from` calls correlator.getId().
CorGetId(from) ==
    /\ obs' = [NoObs EXCEPT !.op = "getId", !.from = from,
                            !.inside = getId(stores, from)]
    /\ UNCHANGED <<headerName, uuidCount, reqVars, heapVars, emitVars, nextVars,
                   appVars, outVars, conts, wrappers>>

\* The k-th continuation runs with the store it captured and calls
\* correlator.setId(v), then correlator.getId().
CorSetId(k, v) ==
    /\ k \in 1..Len(conts)
    /\ LET res == setId(stores, conts[k], v)
       IN  /\ stores' = res.stores
           /\ obs' = [NoObs EXCEPT
                         !.op = "setId", !.from = conts[k], !.a = v,
                         !.error = IF res.threw THEN "usage" ELSE "none",
                         !.before = getId(stores, conts[k]),
                         !.inside = getId(res.stores, conts[k])]
    /\ UNCHANGED <<headerName, uuidCount, reqVars, current, scope, pctx, emitVars,
                   nextVars, appVars, outVars, conts, wrappers>>

\* The k-th continuation, running in the scope it captured, calls
\* correlator.withId(a, work) with a work that reads getId(), calls setId(v),
\* reads getId() again and schedules a continuation; back from the call, the
\* continuation reads getId() itself.
CorNested(k, a, v) ==
    /\ k \in 1..Len(conts)
    /\ Len(stores) + Len(wrappers) < MaxObjects
    /\ LET from == conts[k]
           cfg == configureArgs(a, SecondFn, randomUUID(uuidCount + 1))
           w == withId(stores, cfg.id, cfg.work)
           res == setId(w.stores, w.ref, v)
       IN  /\ stores' = res.stores
           /\ conts' = Append(conts, CapturedStore(w.ref))
           /\ obs' = [NoObs EXCEPT
                         !.op = "nested", !.from = from, !.a = a, !.b = SecondFn,
                         !.before = getId(stores, from),
                         !.error = IF res.threw THEN "usage" ELSE "none",
                         !.scope = w.ref,
                         !.id = cfg.id,
                         !.callee = w.callee,
                         !.entry = getId(w.stores, w.ref),
                         !.set = v,
                         !.inside = getId(res.stores, w.ref),
                         !.after = getId(res.stores, ExitRun(from, w.ref))]
    /\ UNCHANGED <<headerName, uuidCount, reqVars, current, scope, pctx, emitVars,
                   nextVars, appVars, outVars, wrappers>>

\* Code calls sendLogToGraylog(id) itself, as call number r; the promise it
\* gets is pending until a network event of that call, or settled already.
DirectEmit(r, id) ==
    /\ pc[r] = "new"
    /\ LET call == sendLogToGraylog(id)
       IN  /\ emit' = [emit EXCEPT ![r] = call.promise]
           /\ posted' = [posted EXCEPT ![r] = call.posted]
           /\ sent' = [sent EXCEPT ![r] = [id |-> id, ctx |-> current]]
           /\ pc' = [pc EXCEPT ![r] =
                       IF call.promise = "pending" THEN "pending" ELSE "settled"]
    /\ UNCHANGED <<headerName, uuidCount, attached, resHdr, resolved, genBy,
                   heapVars, p1, unhandled, mwThrew, diag, nextVars, appVars,
                   outVars, corVars>>

NextGraylog ==
    \/ \E r \in Reqs, id \in DirectIds : DirectEmit(r, id)
    \/ \E r \in Reqs : ResponseEnd(r)
    \/ \E r \in Reqs : RequestError(r)

\* A program that calls the emitter directly.
SpecGraylog == Init /\ [][NextGraylog]_vars

\* Code calls correlator.isUUID(candidate).
CorIsUUID(candidate) ==
    /\ obs' = [NoObs EXCEPT !.op = "isUUID", !.a = candidate,
                            !.result = Bool(isUUID(candidate))]
    /\ UNCHANGED <<headerName, uuidCount, reqVars, heapVars, emitVars, nextVars,
                   appVars, outVars, conts, wrappers>>

NextIsUUID == \E candidate \in Candidates : CorIsUUID(candidate)

\* A program that validates values with isUUID.
SpecIsUUID == Init /\ [][NextIsUUID]_vars

NextCorrelator ==
    \/ \E from \in Contexts, a \in FirstArgs, b \in SecondArgs : CorWithId(from, a, b)
    \/ \E a \in FirstArgs, b \in SecondArgs : CorBindId(a, b)
    \/ \E from \in Contexts, k \in 1..MaxObjects, given \in ArgLists :
          CorInvoke(from, k, given)
    \/ \E from \in Contexts : CorGetId(from)
    \/ \E k \in 1..MaxObjects, v \in CorSetVals : CorSetId(k, v)
    \/ \E k \in 1..MaxObjects, v \in CorSetVals : CorNested(k, NewId456, v)

\* A program that uses the correlator directly, without the middleware.
SpecCorrelator == Init /\ [][NextCorrelator]_vars

Next ==
    \/ \E r \in Reqs, headers \in RequestHeaders, how \in EmitCalls :
          Middleware(r, headers, how)
    \/ \E r \in Reqs : ResponseEnd(r)
    \/ \E r \in Reqs : RequestError(r)
    \/ \E r \in Reqs : RunCatch(r)
    \/ \E r \in Reqs : RunFinally(r)
    \/ \E r \in Reqs, c \in Conts, v \in SetVals : ContSetId(r, c, v)

\* The server handling requests.
Spec == Init /\ [][Next]_vars

\* The server handling requests, with code that runs in no scope as well.
NextTopLevel ==
    \/ Next
    \/ \E v \in SetVals : OutsideSetId(v)

SpecTopLevel == Init /\ [][NextTopLevel]_vars

\* ------------------------------------------------------------ properties
\* The identifier a request carries: the one its scope was given, until its
\* own downstream code replaces it with setId.
OwnId(r) == IF lastSet[r] # NotSet THEN lastSet[r] ELSE resolved[r]

IsPrefix(s, t) == Len(s) <= Len(t) /\ \A i \in 1..Len(s) : s[i] = t[i]

Count(seq, x) == Cardinality({i \in 1..Len(seq) : seq[i] = x})

InFlight(r) == pc[r] \in {"pending", "catch", "finally"}

C1_Step ==
    \A r \in Reqs :
        (pc[r] = "new" /\ pc'[r] # "new")
        => \A id \in HeaderValues :
              (Truthy(id) /\ isUUID(id))
              => \A how \in EmitCalls :
                    MiddlewareOn(r, id, how)
                    => /\ resHdr'[r][headerName] = id
                       /\ resolved'[r] = id
                       /\ genBy'[r] = 0
                       /\ getId(stores', scope'[r]) = id

C1_Handler ==
    \A r \in Reqs :
        (genBy[r] = 0 /\ nextCalls[r] > 0)
        => /\ idAtNext[r] = resHdr[r][headerName]
           /\ idAtNext[r] = resolved[r]

\* C1: a header value that passes isUUID is written to the response under
\* the same name exactly as it came (no case folding), and getId() at the
\* entry of the downstream handler returns that value.
C1_IncomingIdRoundTrip == [][C1_Step /\ C1_Handler']_vars

C1_Witness ==
    \E r \in Reqs :
        /\ pc[r] = "next"
        /\ genBy[r] = 0
        /\ resHdr[r][headerName] = UpperUuid
        /\ idAtNext[r] = UpperUuid

C2_Step ==
    \A r \in Reqs :
        (pc[r] = "new" /\ pc'[r] # "new")
        => \A id \in HeaderValues :
              ~(Truthy(id) /\ isUUID(id))
              => \A how \in EmitCalls :
                    MiddlewareOn(r, id, how)
                    => /\ uuidCount' = uuidCount + 1
                       /\ genBy'[r] = 1
                       /\ resolved'[r] = randomUUID(uuidCount')
                       /\ isUUID(resolved'[r])
                       /\ resolved'[r] # id
                       /\ stores'[scope'[r]] = resolved'[r]
                       /\ resHdr'[r][headerName] = resolved'[r]
                       /\ \A q \in Reqs \ {r} :
                             genBy[q] = 1 => resolved[q] # resolved'[r]

C2_Handler ==
    \A r \in Reqs :
        (genBy[r] = 1 /\ nextCalls[r] > 0)
        => /\ idAtNext[r] = resHdr[r][headerName]
           /\ idAtNext[r] = resolved[r]

\* C2: when the configured header is missing, empty or not a UUID, its value
\* is not used: withId generates exactly one fresh UUID, that value is the
\* id of the request's scope record, the response header is set to it, and
\* getId() at the entry of the downstream handler returns it.
C2_GeneratedIdIsScopeId == [][C2_Step /\ C2_Handler']_vars

C2_Witness ==
    \E r \in Reqs :
        /\ pc[r] = "next"
        /\ genBy[r] = 1
        /\ isUUID(resHdr[r][headerName])
        /\ idAtNext[r] = resHdr[r][headerName]

\* C3: with several requests in flight and their continuations interleaved
\* in any order, getId() in every continuation of a request (the promise
\* reactions that lead to next, the downstream handler and what it
\* scheduled) returns that request's own identifier.
C3_RequestsSeeOwnId ==
    \A r \in Reqs :
        /\ InFlight(r) => getId(stores, pctx[r]) = OwnId(r)
        /\ pc[r] = "next" =>
              /\ idAtNext[r] = resolved[r]
              /\ \A c \in Conts : getId(stores, cctx[r][c]) = OwnId(r)

C3_Witness ==
    \E r, q \in Reqs :
        /\ r < q
        /\ pc[r] = "finally"
        /\ pc[q] = "next"
        /\ lastSet[q] # NotSet
        /\ OwnId(r) # OwnId(q)
        /\ getId(stores, pctx[r]) = OwnId(r)

\* C4: next does not depend on the emission settling: a request whose
\* emission promise is still pending and whose next has not run can take the
\* step that leads to next.
C4_NextDoesNotWaitForEmission ==
    \A r \in Reqs :
        (emit[r] = "pending" /\ nextCalls[r] = 0)
        => ENABLED (RunCatch(r) \/ RunFinally(r))

\* C5: when the emission promise is rejected, in the incoming and in the
\* generated branch alike, the rejection is caught: one 'Logging error:'
\* notice is written, the chain goes on to run next once, nothing is thrown
\* to the caller of the middleware and no rejection is left unhandled.
C5_RejectionCaught ==
    \A r \in Reqs :
        emit[r] = "rejected"
        => /\ pc[r] \in {"catch", "finally", "next"}
           /\ ~mwThrew[r]
           /\ pc[r] = "catch" => (diag[r] = <<>> /\ ENABLED RunCatch(r))
           /\ pc[r] = "finally" => (diag[r] = <<LoggingTag>> /\ ENABLED RunFinally(r))
           /\ pc[r] = "next" =>
                 /\ diag[r] = <<LoggingTag>>
                 /\ nextCalls[r] = 1
                 /\ ~unhandled[r]

C5_Witness ==
    \E r, q \in Reqs :
        /\ emit[r] = "rejected" /\ genBy[r] = 0
        /\ emit[q] = "rejected" /\ genBy[q] = 1
        /\ pc[r] = "next" /\ pc[q] = "next"
        /\ Count(diag[r], LoggingTag) = 1
        /\ Count(diag[q], LoggingTag) = 1

\* C6: when the emission call throws, the middleware's guard catches it,
\* writes the 'Unexpected error with Graylog logging:' notice and has run
\* next by the time the middleware call returns; no request gets both that
\* notice and a 'Logging error:' notice.
C6_SynchronousFaultCaught ==
    \A r \in Reqs :
        /\ emit[r] = "threw"
           => /\ diag[r] = <<UnexpectedTag>>
              /\ nextCalls[r] = 1
              /\ pc[r] = "next"
              /\ ~mwThrew[r]
        /\ ~(Count(diag[r], LoggingTag) > 0 /\ Count(diag[r], UnexpectedTag) > 0)
        /\ UnexpectedTag # LoggingTag

C6_Witness ==
    \E r, q \in Reqs :
        /\ emit[r] = "threw" /\ diag[r] = <<UnexpectedTag>> /\ nextCalls[r] = 1
        /\ emit[q] = "rejected" /\ diag[q] = <<LoggingTag>> /\ nextCalls[q] = 1

\* C7: for each request the response header is set, then the emission call
\* is issued, then next is invoked, in that order.
C7_SetThenEmitThenNext ==
    \A r \in Reqs :
        /\ IsPrefix(events[r], <<"set", "emit", "next">>)
        /\ Count(events[r], "set") > 0 <=> resHdr[r][headerName] # Undefined
        /\ Count(events[r], "emit") > 0 <=> emit[r] # "none"
        /\ Count(events[r], "next") > 0 <=> nextCalls[r] > 0

C7_Witness ==
    \E r, q \in Reqs :
        /\ events[r] = <<"set", "emit", "next">> /\ emit[r] = "fulfilled"
        /\ events[q] = <<"set", "emit">> /\ emit[q] = "pending"

\* C8: whichever way next is reached (emission fulfilled, rejected, or the
\* call threw), next runs with the request's scope record as the current
\* store, so does everything the handler schedules: setId downstream never
\* throws the usage error and getId() is never absent.
C8_NextRunsInsideScope ==
    \A r \in Reqs :
        nextCalls[r] > 0
        => /\ nextCtx[r] # NoStore
           /\ nextCtx[r] = scope[r]
           /\ idAtNext[r] # Undefined
           /\ ~appThrew[r]
           /\ \A c \in Conts :
                 /\ cctx[r][c] = scope[r]
                 /\ getId(stores, cctx[r][c]) # Undefined

C8_Witness ==
    \E r, q \in Reqs :
        /\ emit[r] = "threw" /\ lastSet[r] # NotSet /\ ~appThrew[r]
        /\ emit[q] \in {"fulfilled", "rejected"} /\ lastSet[q] # NotSet /\ ~appThrew[q]

C9_Step ==
    \A v \in SetVals :
        OutsideSetId(v)
        => /\ outsideThrew'
           /\ stores' = stores
           /\ outsideGot' = Undefined

\* C9: setId with no scope current throws the usage error and changes
\* nothing: every scope record keeps its id and getId() outside a scope
\* still returns the absent value.
C9_SetIdOutsideScopeThrows ==
    /\ [][C9_Step]_vars
    /\ [](outsideGot # NotSet => (outsideThrew /\ outsideGot = Undefined))

C9_Witness ==
    /\ outsideThrew
    /\ outsideGot = Undefined
    /\ \E r \in Reqs : pc[r] = "next" /\ getId(stores, scope[r]) = OwnId(r)

\* C10: setId(v) inside a scope writes the scope's one record: from then on,
\* until the next setId there, getId() returns v in the continuation that
\* called it and in every other continuation of that scope, also the ones
\* scheduled before the call.
C10_SetIdSharedByContinuations ==
    \A r \in Reqs :
        lastSet[r] # NotSet
        => /\ echo[r] = lastSet[r]
           /\ \A c \in Conts : getId(stores, cctx[r][c]) = lastSet[r]

C10_Witness ==
    \E r \in Reqs :
        /\ lastSet[r] = NewId456
        /\ resolved[r] # NewId456
        /\ \A c \in Conts : getId(stores, cctx[r][c]) = NewId456

C11_Step ==
    \A q \in Reqs :
        (scope[q] # NoStore /\ lastSet'[q] = lastSet[q])
        => \A ref \in {scope[q], pctx[q]} \cup {cctx[q][c] : c \in Conts} :
              getId(stores', ref) = getId(stores, ref)

\* C11: a step in which a request does not itself call setId leaves what
\* getId() returns in that request's scope as it was, whatever the other
\* requests do in their scopes, setId included, and in whatever order the
\* continuations of the requests run.
C11_SetIdLeavesOtherScopes == [][C11_Step]_vars

C11_Witness ==
    \E r, q \in Reqs :
        /\ r # q
        /\ pc[r] = "next" /\ pc[q] = "next"
        /\ resolved[r] = resolved[q]
        /\ lastSet[r] = NewId456
        /\ lastSet[q] = NotSet
        /\ getId(stores, scope[r]) = NewId456
        /\ \A c \in Conts : getId(stores, cctx[q][c]) = resolved[q]

\* C12: getId() called with no scope current returns the absent value, and
\* called in a scope it returns the id field of that scope's record, whatever
\* that field holds; it never throws.
C12_GetIdNeverFails ==
    obs.op = "getId"
    => /\ obs.error = "none"
       /\ obs.from \in 0..Len(stores)
       /\ obs.inside = IF obs.from = NoStore THEN Undefined ELSE stores[obs.from]

C12_Witness ==
    /\ obs.op = "getId"
    /\ obs.from = NoStore
    /\ obs.inside = Undefined
    /\ stores # <<>>

\* C13: after withId(id, work) has returned, the continuation that work
\* scheduled holds the record withId created and getId() there returns its
\* id, while getId() in the caller returns what it returned before the call:
\* the id of the caller's own scope, or the absent value without one.
C13_ScopeOutlivesCallAndLeavesCaller ==
    /\ \A k \in 1..Len(conts) : conts[k] \in 1..Len(stores)
    /\ (obs.op = "withId" /\ obs.error = "none")
       => /\ obs.after = obs.before
          /\ obs.from = NoStore => obs.after = Undefined
          /\ obs.from # NoStore => obs.after = stores[obs.from]
          /\ conts # <<>>
          /\ conts[Len(conts)] = obs.scope
          /\ obs.scope # obs.from
          /\ getId(stores, conts[Len(conts)]) = obs.id

C13_Witness ==
    /\ obs.op = "withId"
    /\ obs.error = "none"
    /\ obs.from # NoStore
    /\ obs.before # obs.inside
    /\ obs.after = obs.before
    /\ getId(stores, conts[Len(conts)]) = obs.inside

\* C15 as claimed: whenever the first argument of withId is callable it is
\* the work and the id is a generated UUID; otherwise the first argument is
\* the id and the second the work.
C15_CallableFirstIsAlwaysWork ==
    (obs.op = "withId" /\ obs.error # "usage")
    => IF isFunction(obs.a)
       THEN obs.callee = obs.a /\ obs.gen /\ isUUID(obs.id)
       ELSE obs.id = obs.a /\ obs.callee = obs.b /\ ~obs.gen

\* C15: when the first argument of withId is callable and no second argument
\* is given (it is falsy), the first argument is the work and the id is a
\* UUID generated by this call; in every other call that does not fail for
\* a missing work, the first argument is the id as it is, also when it is a
\* function, and the second argument is what is called as the work.
C15_CallableFirstIsWorkWhenAlone ==
    (obs.op = "withId" /\ obs.error # "usage")
    => IF isFunction(obs.a) /\ ~Truthy(obs.b)
       THEN /\ obs.callee = obs.a
            /\ obs.gen
            /\ obs.id = randomUUID(uuidCount)
            /\ isUUID(obs.id)
            /\ stores[obs.scope] = obs.id
       ELSE /\ obs.id = obs.a
            /\ obs.callee = obs.b
            /\ ~obs.gen
            /\ stores[obs.scope] = obs.a

C15_Witness ==
    /\ obs.op = "withId"
    /\ obs.error = "none"
    /\ isFunction(obs.a)
    /\ obs.callee = SecondFn
    /\ obs.id = FirstFn
    /\ obs.inside = FirstFn

\* C16: a call of withId or bindId whose work, after the arguments are
\* resolved, is not a function fails with the usage error at once: no scope
\* record is created, nothing is called and bindId returns no function.
C16_NonCallableWorkFailsAtCall ==
    (/\ obs.op \in {"withId", "bindId"}
     /\ ~isFunction(obs.b)
     /\ ~(isFunction(obs.a) /\ ~Truthy(obs.b)))
    => /\ obs.error = "usage"
       /\ obs.scope = NoStore
       /\ obs.result = NotSet

C17_Step ==
    \A a \in FirstArgs, b \in SecondArgs :
        CorBindId(a, b)
        => /\ stores' = stores
           /\ conts' = conts
           /\ obs'.callee = NotSet
           /\ obs'.error = "none"
              => /\ Len(wrappers') = Len(wrappers) + 1
                 /\ obs'.result = wrappers'[Len(wrappers')]
                 /\ isFunction(obs'.result)

C17_Invoke ==
    (obs.op = "invoke" /\ obs.error = "none")
    => /\ obs.scope = Len(stores)
       /\ obs.inside = obs.a.id
       /\ obs.callee = obs.a.work
       /\ obs.args = obs.given
       /\ obs.result = WorkResult(obs.a.work, obs.given)
       /\ conts[Len(conts)] = obs.scope

\* C17: bindId(id, work) creates no scope record and calls nothing; it
\* returns a function, and every call of that function creates a new scope
\* record carrying id, calls work in it with the arguments of that call and
\* returns what work returned.
C17_BindDefersScopeAndWork == [][C17_Step]_vars /\ []C17_Invoke

C17_Witness ==
    /\ obs.op = "invoke"
    /\ obs.error = "none"
    /\ obs.given = <<NewId456, Undefined>>
    /\ obs.args = obs.given
    /\ obs.scope = 2
    /\ obs.inside = stores[1]

\* The headers of a request with `id` under the configured name and `other`
\* under every other name.
C14_Headers(id, other) ==
    [n \in HeaderNames |-> IF n = headerName THEN id ELSE other]

C14_Step ==
    \A r \in Reqs :
        (pc[r] = "new" /\ pc'[r] # "new")
        => \A id \in HeaderValues, how \in EmitCalls :
              Middleware(r, C14_Headers(id, id), how)
              => /\ genBy'[r] = 0 <=> AcceptIncoming(id)
                 /\ genBy'[r] = 0 => resHdr'[r][headerName] = id
                 /\ resHdr'[r][headerName] = resolved'[r]
                 /\ \A n \in HeaderNames \ {headerName} :
                       resHdr'[r][n] = Undefined
                 /\ \A other \in HeaderValues :
                       Middleware(r, C14_Headers(id, other), how)

C18_HyphenPlaces == {9, 14, 19, 24}

C18_CanonicalString(v) ==
    /\ v.type = "string"
    /\ Len(v.chars) = 36
    /\ \A i \in 1..36 :
          IF i \in C18_HyphenPlaces THEN v.chars[i] = "-"
          ELSE v.chars[i] \in HexChars

\* C18: isUUID(candidate) is true exactly when candidate is a string of the
\* 8-4-4-4-12 hexadecimal shape, in upper or lower case, and false for every
\* other value, a value that is not a string included.
C18_TrueExactlyForCanonicalStrings ==
    obs.op = "isUUID"
    => (obs.result = Bool(TRUE) <=> C18_CanonicalString(obs.a))

\* C19: once the middleware has handled a request, in the incoming and in
\* the generated branch and however the emission call behaves,
\* req.correlationId is the correlator's getId and req.setCorrelationId the
\* correlator's setId, the same functions as the static getId and setId of
\* the factory; a request it has not seen has neither.
C19_CapabilitiesAttached ==
    /\ StaticGetId = CorrelatorGetId
    /\ StaticSetId = CorrelatorSetId
    /\ CorrelatorGetId # CorrelatorSetId
    /\ \A r \in Reqs :
          IF pc[r] = "new"
          THEN attached[r] = NoCapabilities
          ELSE /\ attached[r].correlationId = StaticGetId
               /\ attached[r].setCorrelationId = StaticSetId

C19_Witness ==
    \E r, q \in Reqs :
        /\ genBy[r] = 0 /\ pc[r] = "next"
        /\ genBy[q] = 1 /\ pc[q] = "pending"
        /\ attached[r] = attached[q]
        /\ attached[q].setCorrelationId = CorrelatorSetId
        /\ attached[q].correlationId = CorrelatorGetId

C21_InnerScopeShadowsOuter ==
    (obs.op = "nested" /\ obs.error = "none")
    => /\ obs.from # NoStore
       /\ obs.scope # obs.from
       /\ obs.entry = obs.id
       /\ obs.inside = obs.set
       /\ obs.after = obs.before
       /\ stores[obs.from] = obs.before
       /\ stores[obs.scope] = obs.set

C21_Witness ==
    /\ obs.op = "nested"
    /\ obs.error = "none"
    /\ obs.entry = NewId456
    /\ obs.inside = UuidOf(0)
    /\ obs.before \notin {NewId456, UuidOf(0)}
    /\ obs.after = obs.before

C28_Step ==
    \A from \in Contexts, k \in 1..Len(wrappers), given \in ArgLists :
        CorInvoke(from, k, given)
        => /\ uuidCount' = uuidCount
           /\ wrappers' = wrappers
           /\ Len(stores') = Len(stores) + 1
           /\ \A j \in 1..Len(stores) : stores'[j] = stores[j]
           /\ obs'.scope = Len(stores')
           /\ obs'.inside = wrappers[k].id

C28_Bind ==
    (obs.op = "bindId" /\ obs.error = "none" /\ obs.gen)
    => /\ obs.result.id = randomUUID(uuidCount)
       /\ isUUID(obs.result.id)

\* C28: the function bindId returns holds one id, generated by the bindId
\* call itself when none was given; a call of the function generates nothing
\* and creates a new scope record that starts with that id, whatever setId
\* did to the records of earlier calls, which stay as they are.
C28_BoundIdFixedRecordFresh == [][C28_Step]_vars /\ []C28_Bind

C28_Witness ==
    /\ obs.op = "invoke"
    /\ obs.error = "none"
    /\ obs.scope = 2
    /\ isUUID(obs.a.id)
    /\ obs.inside = obs.a.id
    /\ stores[1] = UuidOf(0)
    /\ stores[1] # obs.a.id
    /\ stores[2] = obs.a.id

\* C22: the emission call of a request is made with the request's scope
\* record as the current store, and its argument is the identifier the
\* request resolved to: the id the scope was given and the value written to
\* the response header, in the incoming and in the generated branch.
C22_EmissionCarriesResolvedId ==
    \A r \in Reqs :
        IF pc[r] = "new"
        THEN sent[r] = NoCall
        ELSE /\ sent[r].id = resolved[r]
             /\ sent[r].id = resHdr[r][headerName]
             /\ sent[r].ctx = scope[r]
             /\ sent[r].ctx # NoStore
             /\ emit[r] # "none"

C22_Witness ==
    \E r, q \in Reqs :
        /\ genBy[r] = 1 /\ posted[r] /\ isUUID(sent[r].id)
        /\ sent[r].id = resHdr[r][headerName]
        /\ genBy[q] = 0 /\ posted[q] /\ sent[q].id = UpperUuid
        /\ sent[q].ctx = scope[q]

\* C23: sendLogToGraylog called with no identifier (undefined, null or the
\* empty string) writes no HTTP request and returns a promise that is
\* resolved already, so no network event and no notice follows; called with
\* an identifier it writes the request.
C23_NoIdentifierNoEmission ==
    \A r \in Reqs :
        sent[r] # NoCall
        => IF Truthy(sent[r].id)
           THEN posted[r] /\ pc[r] # "settled"
           ELSE /\ ~posted[r]
                /\ emit[r] = "fulfilled"
                /\ pc[r] = "settled"
                /\ diag[r] = <<>>
                /\ ~ENABLED (ResponseEnd(r) \/ RequestError(r))

C23_Witness ==
    \E r, q \in Reqs :
        /\ sent[r].id = EmptyString /\ ~posted[r] /\ emit[r] = "fulfilled"
        /\ sent[q].id = Undefined /\ ~posted[q] /\ emit[q] = "fulfilled"

\* C24: when the HTTP request of the emission fails, sendLogToGraylog writes
\* one 'Error sending log to Graylog:' notice and resolves its promise: the
\* promise is never rejected for it, the middleware writes no
\* 'Logging error:' notice, and next is invoked once.
C24_TransportFailureSwallowed ==
    \A r \in Reqs :
        Count(diag[r], TransportTag) > 0
        => /\ emit[r] = "fulfilled"
           /\ diag[r] = <<TransportTag>>
           /\ posted[r]
           /\ ~mwThrew[r]
           /\ pc[r] \in {"catch", "finally", "next"}
           /\ pc[r] = "catch" => ENABLED RunCatch(r)
           /\ pc[r] = "finally" => (p1[r] = "fulfilled" /\ ENABLED RunFinally(r))
           /\ pc[r] = "next" => (nextCalls[r] = 1 /\ ~unhandled[r])

C24_Witness ==
    \E r \in Reqs :
        /\ diag[r] = <<TransportTag>>
        /\ pc[r] = "next"
        /\ nextCalls[r] = 1
        /\ emit[r] = "fulfilled"

\* C25: the identifier a request's scope starts with has passed isUUID or
\* was generated, but setId checks nothing: after setId(v) in the scope with
\* a v that is no UUID, nothing was thrown and getId() in the scope returns
\* v.
C25_SetIdAcceptsAnyValue ==
    \A r \in Reqs :
        /\ pc[r] # "new" => isUUID(resolved[r])
        /\ (lastSet[r] # NotSet /\ ~isUUID(lastSet[r]))
           => /\ ~appThrew[r]
              /\ echo[r] = lastSet[r]
              /\ getId(stores, scope[r]) = lastSet[r]

C25_Witness ==
    \E r \in Reqs :
        /\ isUUID(resolved[r])
        /\ lastSet[r] = NewId456
        /\ ~isUUID(NewId456)
        /\ ~appThrew[r]
        /\ getId(stores, scope[r]) = NewId456

\* C26: next is invoked at most once for a request. When the emission call
\* threw, next ran in the middleware call and no promise reaction exists
\* that could run it again; otherwise next runs in the .finally reaction
\* only, once, after the promise was fulfilled or rejected.
C26_NextAtMostOnce ==
    \A r \in Reqs :
        /\ nextCalls[r] <= 1
        /\ Count(events[r], "next") = nextCalls[r]
        /\ nextCalls[r] = 1 <=> pc[r] = "next"
        /\ pc[r] = "next" => ~ENABLED (RunCatch(r) \/ RunFinally(r))
        /\ emit[r] = "threw" => (pctx[r] = NoStore /\ p1[r] = "none")

C26_Witness ==
    \E r, q \in Reqs :
        /\ emit[r] = "threw" /\ pc[r] = "next" /\ nextCalls[r] = 1
        /\ emit[q] = "fulfilled" /\ pc[q] = "next" /\ nextCalls[q] = 1
        /\ lastSet[r] # NotSet

\* C27: the response header is written once, when the scope is set up, with
\* the resolved identifier; setCorrelationId(v) downstream changes what
\* getId() returns and leaves the header, so the two differ from then on
\* unless v is the resolved identifier.
C27_HeaderWrittenOnce ==
    \A r \in Reqs :
        pc[r] # "new"
        => /\ Count(events[r], "set") = 1
           /\ resHdr[r][headerName] = resolved[r]
           /\ lastSet[r] # NotSet
              => /\ getId(stores, scope[r]) = lastSet[r]
                 /\ lastSet[r] # resolved[r]
                    => getId(stores, scope[r]) # resHdr[r][headerName]

C27_Witness ==
    \E r \in Reqs :
        /\ lastSet[r] = UuidOf(0)
        /\ getId(stores, scope[r]) = UuidOf(0)
        /\ resHdr[r][headerName] = UpperUuid
        /\ resolved[r] = UpperUuid

====
